---------------------------- MODULE Spec2Model ----------------------------
(***************************************************************************)
(* A model of transform-literally (src/index.js): building specs with the  *)
(* combinators (constant, map, resolve, call, union, cases, conditional,   *)
(* object, input, bind, cache, ensureSpec, makeSpecFn) and evaluating the  *)
(* compiled callable, with promises kept in a heap and settled by          *)
(* reaction steps.                                                         *)
(***************************************************************************)
EXTENDS Integers, Sequences, FiniteSets, TLC

(***************************************************************************)
(* JavaScript values.  Every value is a record with a tag t; the payload   *)
(* field has a different name per tag.                                     *)
(***************************************************************************)
Num(n) == [t |-> "num", n |-> n]
Str(s) == [t |-> "str", s |-> s]
Bool(b) == [t |-> "bool", b |-> b]
Null == [t |-> "null"]
Undef == [t |-> "undef"]
Arr(items) == [t |-> "arr", items |-> items]
Obj(names, vals) == [t |-> "obj", names |-> names, vals |-> vals]
Fn(name) == [t |-> "fn", name |-> name]
PromiseRef(id) == [t |-> "promise", id |-> id]
Err(cls, msg) == [t |-> "err", cls |-> cls, msg |-> msg]
Raise(e) == [t |-> "raise", err |-> e]

IsRaise(x) == x.t = "raise"
IsSpec(x) == x.t = "spec"
IsPromise(x) == x.t = "promise"

\* JavaScript truthiness (ToBoolean).
Truthy(v) ==
  CASE v.t = "undef" -> FALSE
    [] v.t = "null" -> FALSE
    [] v.t = "bool" -> v.b
    [] v.t = "num" -> v.n # 0
    [] v.t = "str" -> v.s # ""
    [] OTHER -> TRUE

\* typeof x === 'function': closures, plain functions and specs.
IsFunction(x) == x.t \in {"lam", "fn", "spec", "accessor"}

\* typeof x === 'object': null, arrays, records, promises, errors.
TypeofObject(x) == x.t \in {"null", "arr", "obj", "promise", "err"}

\* ToString(v) as a property key.
ToKey(v) ==
  CASE v.t = "str" -> v.s
    [] v.t = "num" -> ToString(v.n)
    [] v.t = "bool" -> (IF v.b THEN "true" ELSE "false")
    [] v.t = "null" -> "null"
    [] v.t = "undef" -> "undefined"
    [] OTHER -> "[object Object]"

\* The members every plain object inherits from Object.prototype.
ObjectPrototypeKeys == {"toString"}

IndexOf(names, k) ==
  IF \E i \in 1..Len(names) : names[i] = k
  THEN CHOOSE i \in 1..Len(names) : names[i] = k /\ \A j \in (i+1)..Len(names) : names[j] # k
  ELSE 0

HasOwn(obj, k) == obj.t = "obj" /\ IndexOf(obj.names, k) > 0

\* key in obj
JsIn(obj, k) == HasOwn(obj, k) \/ (obj.t = "obj" /\ k \in ObjectPrototypeKeys)

\* obj[key] on a plain object: own property, else the prototype chain.
JsGet(obj, k) ==
  IF HasOwn(obj, k) THEN obj.vals[IndexOf(obj.names, k)]
  ELSE IF obj.t = "obj" /\ k \in ObjectPrototypeKeys THEN Fn("Object.prototype." \o k)
  ELSE Undef

(***************************************************************************)
(* Specs.  A spec is the function makeSpecFn (or cases) returns; the       *)
(* record keeps what its closure captured.                                 *)
(*   kids   the child specs handed to makeSpecFn                           *)
(*   cap    specs the body closes over (item, branch, result, value specs) *)
(*   tok    the Symbol the combinator minted (its construction path)       *)
(***************************************************************************)
NoTok == <<>>

PlainFn(kind) ==
  [kind |-> kind, hasPromises |-> FALSE, cap |-> <<>>, tok |-> NoTok,
   names |-> <<>>, val |-> Undef, req |-> FALSE]

\* The flag taken from the children alone, the body's own hasPromises dropped.
HasPromisesIgnoringOverride(fn, specs) == \E i \in 1..Len(specs) : specs[i].mayDefer

\* src/index.js 197-203: the flag is the override or any child's flag.
hasPromises(fn, specs) ==
  fn.hasPromises \/ \E i \in 1..Len(specs) : specs[i].mayDefer

makeSpecFn(fn, specs, id) ==
  [t |-> "spec", id |-> id, kind |-> fn.kind, mayDefer |-> hasPromises(fn, specs),
   override |-> fn.hasPromises, kids |-> specs, cap |-> fn.cap, tok |-> fn.tok,
   names |-> fn.names, val |-> fn.val, req |-> fn.req]

constant(value, id) == makeSpecFn([PlainFn("constant") EXCEPT !.val = value], <<>>, id)

\* makeSpecFn(ctx => ctx[token])
RefSpec(token, id) == makeSpecFn([PlainFn("ref") EXCEPT !.tok = token], <<>>, id)

IllegalSpecError == Err("IllegalSpecError", "argument must be function")
NotAFunction == Err("TypeError", "is not a function")

requireFunction(fn) ==
  IF ~IsFunction(fn) THEN Raise(IllegalSpecError) ELSE Undef

RECURSIVE ensureSpec(_, _)
RECURSIVE EnsureAll(_, _, _)
\* spec.map(ensureSpec) / the for-in loop: lift every element in order.
EnsureAll(vals, id, i) ==
  IF i > Len(vals) THEN <<>>
  ELSE <<ensureSpec(vals[i], id \o <<i>>)>> \o EnsureAll(vals, id, i + 1)

ensureSpec(spec, id) ==
  IF Truthy(spec) /\ IsSpec(spec) THEN spec
  ELSE IF spec.t = "arr"
    THEN makeSpecFn(PlainFn("array"), EnsureAll(spec.items, id, 1), id)
  ELSE IF TypeofObject(spec)
    THEN LET names == IF spec.t = "obj" THEN spec.names ELSE <<>>
             vals == IF spec.t = "obj" THEN spec.vals ELSE <<>>
         IN makeSpecFn([PlainFn("record") EXCEPT !.names = names],
                       EnsureAll(vals, id, 1), id)
  ELSE constant(spec, id)


(***************************************************************************)
(* The caller's program: the JavaScript expression that builds the spec.   *)
(* EvalExpr evaluates it as JavaScript does (arguments first, left to      *)
(* right; a throw ends the construction).  A position in the expression    *)
(* is a path; the Symbol a combinator mints is named by its path.          *)
(***************************************************************************)
Lit(v) == [t |-> "lit", v |-> v]
ArrE(items) == [t |-> "arrE", items |-> items]
ObjE(names, vals) == [t |-> "objE", names |-> names, vals |-> vals]
Var(name) == [t |-> "var", name |-> name]
Lam(param, body) == [t |-> "lamE", param |-> param, body |-> body]
App(op, args) == [t |-> "app", op |-> op, args |-> args]

Arg(a, i) == IF i <= Len(a) THEN a[i] ELSE Undef

FirstRaise(vals) ==
  IF \E i \in 1..Len(vals) : IsRaise(vals[i])
  THEN vals[CHOOSE i \in 1..Len(vals) :
              IsRaise(vals[i]) /\ \A j \in 1..(i-1) : ~IsRaise(vals[j])]
  ELSE Undef

Lookup(env, name) ==
  IF \E i \in 1..Len(env) : env[i].name = name
  THEN env[CHOOSE i \in 1..Len(env) :
             env[i].name = name /\ \A j \in (i+1)..Len(env) : env[j].name # name].val
  ELSE Undef

RECURSIVE EvalExpr(_, _, _)

\* f(arg) for a JavaScript function value f.
CallFn(f, arg, p) ==
  IF f.t = "lam" THEN EvalExpr(f.body, Append(f.env, [name |-> f.param, val |-> arg]), f.path \o <<1>>)
  ELSE IF f.t = "fn" /\ f.name = "id" THEN arg
  ELSE IF IsFunction(f) THEN Undef
  ELSE Raise(NotAFunction)

BodyPath(f, p) == IF f.t = "lam" THEN f.path \o <<1>> ELSE p \o <<1>>

\* src/index.js 11-31
map(arraySpec0, itemSpecFn, p) ==
  LET arraySpec == ensureSpec(arraySpec0, p \o <<1>>)
      chk == requireFunction(itemSpecFn)
      currentItem == p
      r == CallFn(itemSpecFn, RefSpec(currentItem, p \o <<0>>), p)
      itemSpec == ensureSpec(r, BodyPath(itemSpecFn, p))
  IN IF IsRaise(chk) THEN chk
     ELSE IF IsRaise(r) THEN r
     ELSE makeSpecFn([PlainFn("map") EXCEPT !.hasPromises = itemSpec.mayDefer,
                                             !.cap = <<itemSpec>>, !.tok = currentItem],
                     <<arraySpec>>, p)

\* src/index.js 33-41
resolve(promiseSpec0, p) ==
  LET promiseSpec == ensureSpec(promiseSpec0, p \o <<1>>)
  IN makeSpecFn([PlainFn("resolve") EXCEPT !.hasPromises = TRUE], <<promiseSpec>>, p)

\* src/index.js 43-47; the rest arguments are one array literal.
call(fn, argumentSpec0, p) ==
  LET chk == requireFunction(fn)
      argumentSpec == ensureSpec(Arr(argumentSpec0), p \o <<0>>)
  IN IF IsRaise(chk) THEN chk
     ELSE makeSpecFn([PlainFn("call") EXCEPT !.val = fn], <<argumentSpec>>, p)

\* src/index.js 49-52
union(specs0, p) ==
  makeSpecFn(PlainFn("union"), EnsureAll(specs0, p, 1), p)

\* src/index.js 54-85; not built by makeSpecFn.  kids is the selector, cap the
\* case specs in for-in order, names their keys.
cases(spec0, caseSpecs0, p) ==
  LET spec == ensureSpec(spec0, p \o <<1>>)
      names == IF caseSpecs0.t = "obj" THEN caseSpecs0.names ELSE <<>>
      vals == IF caseSpecs0.t = "obj" THEN caseSpecs0.vals ELSE <<>>
      caseSpecs == EnsureAll(vals, p \o <<2>>, 1)
      anyCase == \E i \in 1..Len(caseSpecs) : caseSpecs[i].mayDefer
  IN [t |-> "spec", id |-> p, kind |-> "cases", mayDefer |-> spec.mayDefer \/ anyCase,
      override |-> anyCase, kids |-> <<spec>>, cap |-> caseSpecs, tok |-> NoTok,
      names |-> names, val |-> Undef, req |-> FALSE]

\* src/index.js 87-99
conditional(valueSpec0, trueSpec0, falseSpec0, p) ==
  LET valueSpec == ensureSpec(valueSpec0, p \o <<1>>)
      trueSpec == ensureSpec(trueSpec0, p \o <<2>>)
      falseSpec == ensureSpec(falseSpec0, p \o <<3>>)
  IN makeSpecFn([PlainFn("conditional") EXCEPT
                   !.hasPromises = trueSpec.mayDefer \/ falseSpec.mayDefer,
                   !.cap = <<trueSpec, falseSpec>>],
                <<valueSpec>>, p)

\* src/index.js 104-111: the accessor handed to resultSpecFn, applied.
propAccessor(acc, propertySpec0, required, p) ==
  LET propertySpec == ensureSpec(propertySpec0, p \o <<2>>)
  IN makeSpecFn([PlainFn("prop") EXCEPT !.tok = acc.tok, !.req = Truthy(required)],
                <<propertySpec>>, p)

\* src/index.js 101-122
object(objectSpec0, resultSpecFn, p) ==
  LET objectSpec == ensureSpec(objectSpec0, p \o <<1>>)
      currentObject == p
      r == CallFn(resultSpecFn, [t |-> "accessor", tok |-> currentObject], p)
      resultSpec == ensureSpec(r, BodyPath(resultSpecFn, p))
  IN IF IsRaise(r) THEN r
     ELSE makeSpecFn([PlainFn("object") EXCEPT !.hasPromises = resultSpec.mayDefer,
                                                !.cap = <<resultSpec>>, !.tok = currentObject],
                     <<objectSpec>>, p)

\* src/index.js 124-130: the compiled callable, not a spec.
input(specFn, p) ==
  LET givenInput == p
      r == CallFn(specFn, RefSpec(givenInput, p \o <<0>>), p)
      spec == ensureSpec(r, BodyPath(specFn, p))
  IN IF IsRaise(r) THEN r
     ELSE [t |-> "compiled", spec |-> spec, tok |-> givenInput]

\* src/index.js 132-143
bind(valueSpec0, specFn, p) ==
  LET valueSpec == ensureSpec(valueSpec0, p \o <<1>>)
      currentValue == p
      r == CallFn(specFn, RefSpec(currentValue, p \o <<0>>), p)
      spec == ensureSpec(r, BodyPath(specFn, p))
  IN IF IsRaise(r) THEN r
     ELSE makeSpecFn([PlainFn("bind") EXCEPT !.hasPromises = spec.mayDefer,
                                              !.cap = <<spec>>, !.tok = currentValue],
                     <<valueSpec>>, p)

\* src/index.js 145-160; the memo table (new Map()) is named by the same path.
cache(keySpec0, valueSpecFn, p) ==
  LET keySpec == ensureSpec(keySpec0, p \o <<1>>)
      currentKey == p
      r == CallFn(valueSpecFn, RefSpec(currentKey, p \o <<0>>), p)
      valueSpec == ensureSpec(r, BodyPath(valueSpecFn, p))
  IN IF IsRaise(r) THEN r
     ELSE makeSpecFn([PlainFn("cache") EXCEPT !.hasPromises = valueSpec.mayDefer,
                                               !.cap = <<valueSpec>>, !.tok = currentKey],
                     <<keySpec>>, p)

Rest(a, from) == IF from > Len(a) THEN <<>> ELSE SubSeq(a, from, Len(a))

\* A call expression once its arguments are evaluated.
Apply(op, a, p) ==
  CASE op = "constant" -> constant(Arg(a, 1), p)
    [] op = "map" -> map(Arg(a, 1), Arg(a, 2), p)
    [] op = "resolve" -> resolve(Arg(a, 1), p)
    [] op = "call" -> call(Arg(a, 1), Rest(a, 2), p)
    [] op = "union" -> union(a, p)
    [] op = "cases" -> cases(Arg(a, 1), Arg(a, 2), p)
    [] op = "conditional" -> conditional(Arg(a, 1), Arg(a, 2), Arg(a, 3), p)
    [] op = "object" -> object(Arg(a, 1), Arg(a, 2), p)
    [] op = "input" -> input(Arg(a, 1), p)
    [] op = "bind" -> bind(Arg(a, 1), Arg(a, 2), p)
    [] op = "cache" -> cache(Arg(a, 1), Arg(a, 2), p)
    [] op = "ensureSpec" -> ensureSpec(Arg(a, 1), p \o <<1>>)
    [] op = "apply" ->
         IF Arg(a, 1).t = "accessor" THEN propAccessor(Arg(a, 1), Arg(a, 2), Arg(a, 3), p)
         ELSE CallFn(Arg(a, 1), Arg(a, 2), p)

RECURSIVE EvalArgs(_, _, _, _)
EvalArgs(es, env, p, i) ==
  IF i > Len(es) THEN <<>>
  ELSE <<EvalExpr(es[i], env, p \o <<i>>)>> \o EvalArgs(es, env, p, i + 1)

EvalExpr(e, env, p) ==
  CASE e.t = "lit" -> e.v
    [] e.t = "var" -> Lookup(env, e.name)
    [] e.t = "lamE" -> [t |-> "lam", param |-> e.param, body |-> e.body, env |-> env, path |-> p]
    [] e.t = "arrE" ->
         LET vals == EvalArgs(e.items, env, p, 1)
         IN IF FirstRaise(vals) # Undef THEN FirstRaise(vals) ELSE Arr(vals)
    [] e.t = "objE" ->
         LET vals == EvalArgs(e.vals, env, p, 1)
         IN IF FirstRaise(vals) # Undef THEN FirstRaise(vals) ELSE Obj(e.names, vals)
    [] e.t = "app" ->
         LET a == EvalArgs(e.args, env, p, 1)
         IN IF FirstRaise(a) # Undef THEN FirstRaise(a) ELSE Apply(e.op, a, p)

(***************************************************************************)
(* Evaluation.  The machine M threaded through one synchronous run:        *)
(*   ctxs   the context objects ever created; a context is a sequence of   *)
(*          bindings [tok, val]                                            *)
(*   proms  the promises ever created                                      *)
(*   memo   the entries of the cache combinators' Maps                     *)
(*   log    one entry per call of a spec function, in call order           *)
(***************************************************************************)
Running == [t |-> "running"]
NoSpec == [t |-> "none"]

CtxHas(ctx, tok) == \E i \in 1..Len(ctx) : ctx[i].tok = tok

\* ctx[token]
CtxGet(ctx, tok) ==
  IF CtxHas(ctx, tok)
  THEN ctx[CHOOSE i \in 1..Len(ctx) :
             ctx[i].tok = tok /\ \A j \in (i+1)..Len(ctx) : ctx[j].tok # tok].val
  ELSE Undef

\* A mutation of the parent context instead of a copy.
ExtendInPlace(M, c, tok, val) ==
  [ctx |-> c,
   M |-> [M EXCEPT !.ctxs[c] = Append(M.ctxs[c], [tok |-> tok, val |-> val])]]

\* Object.assign({}, ctx, {[token]: value}): a new context object.
Extend(M, c, tok, val) ==
  [ctx |-> Len(M.ctxs) + 1,
   M |-> [M EXCEPT !.ctxs = Append(M.ctxs, Append(M.ctxs[c], [tok |-> tok, val |-> val]))]]

NewPromise(M, rec) ==
  [out |-> PromiseRef(Len(M.proms) + 1), M |-> [M EXCEPT !.proms = Append(M.proms, rec)]]

Frame(kind, s, c, waits, inv) ==
  [st |-> "pending", val |-> Undef, kind |-> kind, spec |-> s, ctx |-> c,
   waits |-> waits, inv |-> inv]

\* A promise the caller's own function made (call, input): the engine did not.
ExtPromise == Frame("ext", NoSpec, 0, <<>>, 0)

\* Promise.resolve(v) of a value that is no promise: a promise born fulfilled,
\* which never changes, so it carries its value and takes no place in proms.
Fulfilled(v) == [t |-> "promise", id |-> 0, val |-> v]

IsPrimitive(v) == v.t \in {"num", "str", "bool", "null", "undef"}

\* Map key equality (SameValueZero): primitives by value, objects by reference;
\* every object value an evaluation meets is a reference of its own.
SameKey(a, b) == IsPrimitive(a) /\ IsPrimitive(b) /\ a = b

MemoHas(M, node, key) ==
  \E i \in 1..Len(M.memo) : M.memo[i].node = node /\ SameKey(M.memo[i].key, key)

MemoGet(M, node, key) ==
  M.memo[CHOOSE i \in 1..Len(M.memo) :
           M.memo[i].node = node /\ SameKey(M.memo[i].key, key)].val

MemoSet(M, node, key, val) ==
  [M EXCEPT !.memo = Append(M.memo, [node |-> node, key |-> key, val |-> val])]

\* The plain functions a caller hands to call().
UserFn(fn, args, M) ==
  CASE fn.name = "id" -> [out |-> Arg(args, 1), M |-> M]
    [] fn.name = "throw" -> [out |-> Raise(Err("Error", "thrown by fn")), M |-> M]
    [] fn.name = "defer" -> NewPromise(M, ExtPromise)
    [] OTHER -> [out |-> Undef, M |-> M]

\* names[i]/attrs[i] pairs whose attr is not undefined (src/index.js 184-188).
RECURSIVE KeepDefined(_, _, _)
KeepDefined(names, attrs, i) ==
  IF i > Len(names) THEN Obj(<<>>, <<>>)
  ELSE LET rest == KeepDefined(names, attrs, i + 1)
       IN IF attrs[i].t # "undef"
          THEN Obj(<<names[i]>> \o rest.names, <<attrs[i]>> \o rest.vals)
          ELSE rest

\* obj[name] = val on a plain object.
SetProp(obj, name, val) ==
  IF HasOwn(obj, name)
  THEN [obj EXCEPT !.vals[IndexOf(obj.names, name)] = val]
  ELSE Obj(Append(obj.names, name), Append(obj.vals, val))

RECURSIVE AssignProps(_, _, _)
AssignProps(target, src, i) ==
  IF src.t # "obj" \/ i > Len(src.names) THEN target
  ELSE AssignProps(SetProp(target, src.names[i], src.vals[i]), src, i + 1)

\* Object.assign({}, ...objs)
RECURSIVE AssignAll(_, _, _)
AssignAll(target, objs, i) ==
  IF i > Len(objs) THEN target
  ELSE AssignAll(AssignProps(target, objs[i], 1), objs, i + 1)

LogEntry(s, c, parent, role) ==
  [node |-> s.id, spec |-> s, ctx |-> c, parent |-> parent, role |-> role,
   out |-> Running, ran |-> FALSE, args |-> <<>>, bout |-> Running]

RECURSIVE Invoke(_, _, _, _, _)
RECURSIVE Body(_, _, _, _, _)

NoOuts(M, raise) == [outs |-> <<>>, M |-> M, raise |-> raise]
ConsOut(out, rest) == [outs |-> <<out>> \o rest.outs, M |-> rest.M, raise |-> rest.raise]
SnocOut(rest, out) == [outs |-> rest.outs \o <<out>>, M |-> rest.M, raise |-> rest.raise]

\* specs.map(spec => spec(ctx)) from index i on; a throw ends the loop.
RECURSIVE InvokeAll(_, _, _, _, _)
InvokeAllNext(specs, c, n, i, r) ==
  IF IsRaise(r.out) THEN NoOuts(r.M, r.out)
  ELSE ConsOut(r.out, InvokeAll(specs, c, r.M, n, i + 1))

InvokeAll(specs, c, M, n, i) ==
  IF i > Len(specs) THEN NoOuts(M, Undef)
  ELSE InvokeAllNext(specs, c, n, i, Invoke(specs[i], c, M, n, "kid"))

\* The same loop from the last spec down to the first.
RECURSIVE InvokeAllBackwards(_, _, _, _, _)
InvokeAllBackwardsNext(specs, c, n, i, r) ==
  IF IsRaise(r.out) THEN NoOuts(r.M, r.out)
  ELSE SnocOut(InvokeAllBackwards(specs, c, r.M, n, i - 1), r.out)

InvokeAllBackwards(specs, c, M, n, i) ==
  IF i < 1 THEN NoOuts(M, Undef)
  ELSE InvokeAllBackwardsNext(specs, c, n, i, Invoke(specs[i], c, M, n, "kid"))

evalFnBackwards(specs, c, M, n) == InvokeAllBackwards(specs, c, M, n, Len(specs))

\* src/index.js 196: the default evalFn.
evalFn(specs, c, M, n) == InvokeAll(specs, c, M, n, 1)

\* spec(newCtx) for the context Object.assign made.
InvokeIn(s, e, n) == Invoke(s, e.ctx, e.M, n, "body")

\* array.map(item => itemSpec(Object.assign({}, ctx, {[currentItem]: item})))
RECURSIVE MapItems(_, _, _, _, _, _)
MapItemsNext(s, c, items, n, i, r) ==
  IF IsRaise(r.out) THEN NoOuts(r.M, r.out)
  ELSE ConsOut(r.out, MapItems(s, c, items, r.M, n, i + 1))

MapItems(s, c, items, M, n, i) ==
  IF i > Len(items) THEN NoOuts(M, Undef)
  ELSE MapItemsNext(s, c, items, n, i, InvokeIn(s.cap[1], Extend(M, c, s.tok, items[i]), n))

\* property in obj, obj[property] for the values object() lets through.
PropOf(s, obj, property) ==
  IF obj.t \in {"undef", "null"} THEN Raise(Err("TypeError", "cannot read property"))
  ELSE IF s.req /\ obj.t # "obj" /\ obj.t # "arr"
    THEN Raise(Err("TypeError", "cannot use in operator"))
  ELSE IF s.req /\ ~JsIn(obj, ToKey(property))
    THEN Raise(Err("TypeError", "Required property missing"))
  ELSE JsGet(obj, ToKey(property))

\* caseSpecs[caseValue], then the call of what was found (src/index.js 66-69).
\* A key the map does not own is looked up on Object.prototype: toString is
\* found there and called as a bare function, which gives "[object Undefined]".
CasesPick(s, c, caseValue, M, n) ==
  IF IndexOf(s.names, ToKey(caseValue)) > 0
  THEN Invoke(s.cap[IndexOf(s.names, ToKey(caseValue))], c, M, n, "body")
  ELSE IF ToKey(caseValue) \in ObjectPrototypeKeys
    THEN [out |-> Str("[object Undefined]"), M |-> M]
  ELSE [out |-> Undef, M |-> M]

\* Both branches are evaluated, the selected one's result returned.
conditionalFnBoth(s, c, value, M, n) ==
  IF Truthy(value)
  THEN [out |-> Invoke(s.cap[1], c, M, n, "body").out,
        M |-> Invoke(s.cap[2], c, Invoke(s.cap[1], c, M, n, "body").M, n, "body").M]
  ELSE Invoke(s.cap[2], c, M, n, "body")

\* src/index.js 92-96
conditionalFn(s, c, value, M, n) ==
  IF Truthy(value) THEN Invoke(s.cap[1], c, M, n, "body")
  ELSE Invoke(s.cap[2], c, M, n, "body")

\* Only the absent marker is let through unevaluated.
objectFnUndefinedOnly(s, c, obj, M, n) ==
  IF obj.t = "undef" THEN [out |-> Undef, M |-> M]
  ELSE InvokeIn(s.cap[1], Extend(M, c, s.tok, obj), n)

\* src/index.js 114-119
objectFn(s, c, obj, M, n) ==
  IF ~Truthy(obj) THEN [out |-> Undef, M |-> M]
  ELSE InvokeIn(s.cap[1], Extend(M, c, s.tok, obj), n)

\* src/index.js 137-140
bindFn(s, c, value, M, n) == InvokeIn(s.cap[1], Extend(M, c, s.tok, value), n)

\* cache.set(keyValue, <what valueSpec returned>)
CacheStore(s, keyValue, r) ==
  IF IsRaise(r.out) THEN r
  ELSE [out |-> r.out, M |-> MemoSet(r.M, s.id, keyValue, r.out)]

\* The table is not consulted.
cacheFnNoLookup(s, c, keyValue, M, n) ==
  CacheStore(s, keyValue, InvokeIn(s.cap[1], Extend(M, c, s.tok, keyValue), n))

\* src/index.js 151-157
cacheFn(s, c, keyValue, M, n) ==
  IF ~MemoHas(M, s.id, keyValue)
  THEN CacheStore(s, keyValue, InvokeIn(s.cap[1], Extend(M, c, s.tok, keyValue), n))
  ELSE [out |-> MemoGet(M, s.id, keyValue), M |-> M]

\* src/index.js 25-27
MapResult(s, c, r, n) ==
  IF IsRaise(r.raise) THEN [out |-> r.raise, M |-> r.M]
  ELSE IF s.cap[1].mayDefer THEN NewPromise(r.M, Frame("all", NoSpec, c, r.outs, n))
  ELSE [out |-> Arr(r.outs), M |-> r.M]

\* src/index.js 18-28
mapFn(s, c, array, M, n) ==
  IF array.t # "arr"
  THEN [out |-> Raise(Err("TypeError", "Argument did not evaluate to an array")), M |-> M]
  ELSE MapResult(s, c, MapItems(s, c, array.items, M, n, 1), n)

\* src/index.js 36-38: Promise.resolve(promise)
resolveFn(promise, M) ==
  IF IsPromise(promise) THEN [out |-> promise, M |-> M]
  ELSE [out |-> Fulfilled(promise), M |-> M]

\* The body fn of spec s, called with the context and its children's results.
Body(s, c, args, M, n) ==
  CASE s.kind = "constant" -> [out |-> s.val, M |-> M]
    [] s.kind = "ref" -> [out |-> CtxGet(M.ctxs[c], s.tok), M |-> M]
    [] s.kind = "array" -> [out |-> Arr(args), M |-> M]
    [] s.kind = "record" -> [out |-> KeepDefined(s.names, args, 1), M |-> M]
    [] s.kind = "union" -> [out |-> AssignAll(Obj(<<>>, <<>>), args, 1), M |-> M]
    [] s.kind = "call" -> UserFn(s.val, args[1].items, M)
    [] s.kind = "resolve" -> resolveFn(args[1], M)
    [] s.kind = "map" -> mapFn(s, c, args[1], M, n)
    [] s.kind = "conditional" -> conditionalFn(s, c, args[1], M, n)
    [] s.kind = "object" -> objectFn(s, c, args[1], M, n)
    [] s.kind = "prop" ->
         [out |-> PropOf(s, CtxGet(M.ctxs[c], s.tok), args[1]), M |-> M]
    [] s.kind = "bind" -> bindFn(s, c, args[1], M, n)
    [] s.kind = "cache" -> cacheFn(s, c, args[1], M, n)
    [] s.kind = "cases" -> CasesPick(s, c, args[1], M, n)

BodyDone(r, args, n) ==
  [out |-> r.out,
   M |-> [r.M EXCEPT !.log[n].ran = TRUE, !.log[n].args = args, !.log[n].bout = r.out]]

\* fn(ctx, ...args), with the call and its result noted in the log.
RunBody(s, c, args, M, n) == BodyDone(Body(s, c, args, M, n), args, n)

\* src/index.js 205-210: the two shapes of specFn, once evalFn has run.
SpecFn(s, c, ev, n) ==
  IF IsRaise(ev.raise) THEN [out |-> ev.raise, M |-> ev.M]
  ELSE IF s.mayDefer THEN NewPromise(ev.M, Frame("then", s, c, ev.outs, n))
  ELSE RunBody(s, c, ev.outs, ev.M, n)

Entered(M, s, c, parent, role) == [M EXCEPT !.log = Append(M.log, LogEntry(s, c, parent, role))]
Returned(res, n) == [out |-> res.out, M |-> [res.M EXCEPT !.log[n].out = res.out]]

\* One call specFn(ctx) (src/index.js 204-210, and 63-80 for cases), logged.
Invoke(s, c, M, parent, role) ==
  Returned(SpecFn(s, c, evalFn(s.kids, c, Entered(M, s, c, parent, role), Len(M.log) + 1),
                  Len(M.log) + 1),
           Len(M.log) + 1)

(***************************************************************************)
(* The callers.  Each program is an expression input(...) a caller writes, *)
(* with the runtime values it is then called with.                         *)
(***************************************************************************)
I == Var("i")
N(n) == Lit(Num(n))
S(str) == Lit(Str(str))
In(body) == App("input", <<Lam("i", body)>>)
Id == Lit(Fn("id"))
Throw == Lit(Fn("throw"))
Defer == Lit(Fn("defer"))

Scalars == <<Num(1), Num(0), Str("a"), Str(""), Undef, Null>>
Keys == <<Str("a"), Str("b"), Str("c"), Str("toString"), Num(1)>>
Objects == <<Obj(<<"a">>, <<Num(1)>>), Obj(<<"b">>, <<Num(2)>>), Undef, Null, Num(0), Str(""), Bool(FALSE)>>
Arrays == <<Arr(<<Num(1), Num(2)>>), Arr(<<>>), Arr(<<Str("a")>>), Str("not-an-array")>>
Two == <<Num(1), Str("a")>>

Programs == <<
  \* 1-6: autospecced literals
  [e |-> In(I), inputs |-> Scalars],
  [e |-> In(N(1)), inputs |-> Two],
  [e |-> In(Lit(Null)), inputs |-> Two],
  [e |-> In(ArrE(<<N(1), S("a"), ArrE(<<Lit(Bool(TRUE)), I>>)>>)), inputs |-> Two],
  [e |-> In(ObjE(<<"a", "b", "d">>,
                 <<N(1), ObjE(<<"c">>, <<I>>), App("constant", <<N(2)>>)>>)),
   inputs |-> Two],
  [e |-> In(ArrE(<<Lit(Null), Id>>)), inputs |-> Two],
  \* 7-11: map
  [e |-> In(App("map", <<I, Lam("item", Var("item"))>>)), inputs |-> Arrays],
  [e |-> In(App("map", <<I, Lam("item", App("resolve", <<Var("item")>>))>>)),
   inputs |-> <<Arr(<<Num(1), Num(2)>>), Arr(<<>>)>>],
  [e |-> In(App("map", <<App("resolve", <<I>>), Lam("item", ArrE(<<Var("item"), I>>))>>)),
   inputs |-> <<Arr(<<Num(1), Num(2)>>), Arr(<<>>), Str("not-an-array")>>],
  [e |-> In(App("map", <<I, S("not-a-function")>>)), inputs |-> Arrays],
  [e |-> In(App("map", <<ArrE(<<N(1), N(2)>>), Lam("item", ArrE(<<Var("item"), I>>))>>)),
   inputs |-> Two],
  \* 12-17: call, and failures under synchronous and deferring parents
  [e |-> In(App("call", <<Id, I>>)), inputs |-> Two],
  [e |-> In(App("call", <<S("not-a-function"), I>>)), inputs |-> Two],
  [e |-> In(ArrE(<<I, App("call", <<Throw>>)>>)), inputs |-> Two],
  [e |-> In(ArrE(<<App("resolve", <<App("call", <<Defer>>)>>), App("resolve", <<I>>)>>)),
   inputs |-> <<Str("a")>>],
  [e |-> In(ArrE(<<App("resolve", <<I>>), App("call", <<Throw>>)>>)), inputs |-> Two],
  [e |-> In(App("resolve", <<App("call", <<Defer>>)>>)), inputs |-> Two],
  \* 18-20: cases
  [e |-> In(App("cases", <<I, ObjE(<<"a", "b">>, <<N(1), N(2)>>)>>)), inputs |-> Keys],
  [e |-> In(App("cases", <<App("resolve", <<I>>), ObjE(<<"a", "b">>, <<N(1), N(2)>>)>>)),
   inputs |-> <<Str("b"), Str("c"), Str("toString")>>],
  [e |-> In(App("cases", <<I, ObjE(<<"a", "1">>, <<App("call", <<Throw>>),
                                                    App("resolve", <<N(2)>>)>>)>>)),
   inputs |-> <<Str("a"), Num(1), Str("c")>>],
  \* 21-24: conditional
  [e |-> In(App("conditional", <<I, N(1), N(2)>>)), inputs |-> Scalars],
  [e |-> In(App("conditional", <<App("resolve", <<I>>), N(1), N(2)>>)),
   inputs |-> <<Num(1), Num(0)>>],
  [e |-> In(App("conditional", <<I, App("resolve", <<N(1)>>), App("call", <<Throw>>)>>)),
   inputs |-> <<Num(1), Str("")>>],
  [e |-> In(App("conditional", <<App("call", <<Throw>>), N(1), N(2)>>)), inputs |-> Two],
  \* 25-29: object
  [e |-> In(App("object", <<I, Lam("prop", App("apply", <<Var("prop"), S("a")>>))>>)),
   inputs |-> Objects],
  [e |-> In(App("object", <<I, Lam("prop", App("resolve",
            <<App("apply", <<Var("prop"), S("a"), Lit(Bool(TRUE))>>)>>))>>)),
   inputs |-> <<Obj(<<"a">>, <<Num(1)>>), Undef, Num(0)>>],
  [e |-> In(App("object", <<App("resolve", <<I>>), Lam("prop", N(1))>>)),
   inputs |-> <<Obj(<<"a">>, <<Num(1)>>), Undef, Num(0)>>],
  [e |-> In(App("object", <<I, S("not-a-function")>>)), inputs |-> Objects],
  [e |-> App("input", <<S("not-a-function")>>), inputs |-> Two],
  \* 30-33: bind and the scope of bindings
  [e |-> In(ArrE(<<App("bind", <<I, Lam("v", ArrE(<<Var("v"), I>>))>>), I,
                   App("bind", <<N(2), Lam("w", Var("w"))>>)>>)),
   inputs |-> Two],
  [e |-> In(App("bind", <<App("resolve", <<I>>),
                          Lam("v", App("bind", <<N(2), Lam("w", ArrE(<<Var("v"), Var("w")>>))>>))>>)),
   inputs |-> Two],
  [e |-> In(App("bind", <<I, S("not-a-function")>>)), inputs |-> Two],
  [e |-> In(App("union", <<ObjE(<<"a">>, <<N(1)>>), ObjE(<<"a", "b">>, <<I, N(2)>>)>>)),
   inputs |-> Two],
  \* 34-39: cache
  [e |-> In(App("cache", <<I, Lam("key", ArrE(<<Var("key")>>))>>)), inputs |-> Two],
  [e |-> In(App("cache", <<I, Lam("key", App("call", <<Defer>>))>>)), inputs |-> Two],
  [e |-> In(App("cache", <<I, Lam("key", App("resolve", <<App("call", <<Defer>>)>>))>>)),
   inputs |-> Two],
  [e |-> In(App("cache", <<App("resolve", <<I>>), Lam("key", Var("key"))>>)), inputs |-> Two],
  [e |-> In(App("cache", <<I, Lam("key", App("call", <<Throw>>))>>)), inputs |-> Two],
  [e |-> In(App("cache", <<I, S("not-a-function")>>)), inputs |-> Two]
>>

\* How many times a compiled callable is called.
MaxCalls == 2

VARIABLES prog, built, ctxs, proms, memo, log, results

vars == <<prog, built, ctxs, proms, memo, log, results>>

Machine == [ctxs |-> ctxs, proms |-> proms, memo |-> memo, log |-> log]

Init ==
  /\ prog \in 1..Len(Programs)
  /\ built = NoSpec
  /\ ctxs = <<>>
  /\ proms = <<>>
  /\ memo = <<>>
  /\ log = <<>>
  /\ results = <<>>

\* The machine after a synchronous run becomes the state.
Commit(r) ==
  /\ ctxs' = r.M.ctxs
  /\ proms' = r.M.proms
  /\ memo' = r.M.memo
  /\ log' = r.M.log

\* The caller's expression runs: the spec is built, or the construction throws.
Construct ==
  /\ built = NoSpec
  /\ built' = EvalExpr(Programs[prog].e, <<>>, <<1>>)
  /\ UNCHANGED <<prog, ctxs, proms, memo, log, results>>

\* src/index.js 127-129: the compiled callable is called with a runtime value.
CallInput(v) ==
  /\ built.t = "compiled"
  /\ Len(results) < MaxCalls
  /\ Commit(Invoke(built.spec, Len(ctxs) + 1,
                   [Machine EXCEPT !.ctxs = Append(ctxs, <<[tok |-> built.tok, val |-> v]>>)],
                   0, "root"))
  /\ results' = Append(results,
                        Invoke(built.spec, Len(ctxs) + 1,
                          [Machine EXCEPT !.ctxs = Append(ctxs, <<[tok |-> built.tok, val |-> v]>>)],
                          0, "root").out)
  /\ UNCHANGED <<prog, built>>

\* A promise made by the caller's function settles.
SettleExt(p, ok) ==
  /\ proms[p].kind = "ext"
  /\ proms[p].st = "pending"
  /\ proms' = [proms EXCEPT ![p].st = IF ok THEN "fulfilled" ELSE "rejected",
                            ![p].val = IF ok THEN Num(p) ELSE Err("Error", "rejected")]
  /\ UNCHANGED <<prog, built, ctxs, memo, log, results>>

WaitSt(w) == IF IsPromise(w) /\ w.id > 0 THEN proms[w.id].st ELSE "fulfilled"
WaitVal(w) == IF ~IsPromise(w) THEN w ELSE IF w.id > 0 THEN proms[w.id].val ELSE w.val

\* Promise.all(...).then(args => ...): the results in argument order.
AwaitedArgs(waits) == [i \in 1..Len(waits) |-> WaitVal(waits[i])]

\* Promise.all rejects as soon as one of its promises does.
ReactReject(p) ==
  /\ proms[p].st = "pending"
  /\ proms[p].kind \in {"then", "all", "follow"}
  /\ \E i \in 1..Len(proms[p].waits) :
       /\ WaitSt(proms[p].waits[i]) = "rejected"
       /\ proms' = [proms EXCEPT ![p].st = "rejected", ![p].val = WaitVal(proms[p].waits[i])]
  /\ UNCHANGED <<prog, built, ctxs, memo, log, results>>

\* What the then-callback of frame f returns, given the awaited results.
Callback(f, args) ==
  CASE f.kind = "then" -> RunBody(f.spec, f.ctx, args, Machine, f.inv)
    [] f.kind = "all" -> [out |-> Arr(args), M |-> Machine]
    [] f.kind = "follow" -> [out |-> args[1], M |-> Machine]

\* The promise a then-callback's result settles: a throw rejects it, a returned
\* promise is followed, any other value fulfils it.
Settle(f, out) ==
  IF IsRaise(out) THEN [f EXCEPT !.st = "rejected", !.val = out.err]
  ELSE IF IsPromise(out) THEN Frame("follow", NoSpec, f.ctx, <<out>>, f.inv)
  ELSE [f EXCEPT !.st = "fulfilled", !.val = out]

CommitSettled(p, r) ==
  /\ ctxs' = r.M.ctxs
  /\ proms' = [r.M.proms EXCEPT ![p] = Settle(proms[p], r.out)]
  /\ memo' = r.M.memo
  /\ log' = r.M.log

\* Every awaited promise is fulfilled: the then-callback runs (src/index.js 206, 74-79, 26).
ReactFulfil(p) ==
  /\ proms[p].st = "pending"
  /\ proms[p].kind \in {"then", "all", "follow"}
  /\ \A i \in 1..Len(proms[p].waits) : WaitSt(proms[p].waits[i]) = "fulfilled"
  /\ CommitSettled(p, Callback(proms[p], AwaitedArgs(proms[p].waits)))
  /\ UNCHANGED <<prog, built, results>>

Next ==
  \/ Construct
  \/ \E k \in 1..Len(Programs[prog].inputs) : CallInput(Programs[prog].inputs[k])
  \/ \E p \in 1..Len(proms) : \E ok \in BOOLEAN : SettleExt(p, ok)
  \/ \E p \in 1..Len(proms) : ReactReject(p)
  \/ \E p \in 1..Len(proms) : ReactFulfil(p)

Spec == Init /\ [][Next]_vars

(***************************************************************************)
(* Reading the log.                                                        *)
(***************************************************************************)
Entries == 1..Len(log)

\* The calls the body of call n made (a branch, an item, a result or value spec).
BodyKids(n) == {m \in Entries : log[m].parent = n /\ log[m].role = "body"}

\* The calls evalFn made for call n.
KidEntries(n) == {m \in Entries : log[m].parent = n /\ log[m].role = "kid"}

\* The i-th call in S, in call order.
Nth(Set, i) == CHOOSE m \in Set : Cardinality({x \in Set : x < m}) = i - 1

\* A promise the engine made: a Promise.all(...).then(...) or Promise.resolve.
EnginePromise(out) == IsPromise(out) /\ (out.id = 0 \/ proms[out.id].kind # "ext")

(***************************************************************************)
(* C1.  cache: the value spec is evaluated at most once per key.           *)
(***************************************************************************)
CacheCalls == {n \in Entries : log[n].spec.kind = "cache" /\ log[n].ran}

SameEntry(n1, n2) ==
  log[n1].node = log[n2].node /\ SameKey(log[n1].args[1], log[n2].args[1])

\* The evaluations of the value spec for the cache and key of call n.
ValueEvals(n) == UNION {BodyKids(x) : x \in {y \in CacheCalls : SameEntry(y, n)}}

\* C1 as claimed: for every cache spec and every key value, over all the
\* evaluations made so far (overlapping ones included), the value spec has been
\* evaluated at most once.
C1_AtMostOncePerKey ==
  \A n \in CacheCalls :
    IsPrimitive(log[n].args[1]) => Cardinality(ValueEvals(n)) <= 1

\* C1 amended: an evaluation of the value spec that returns (a value or a
\* deferred value, settled or not) is stored at once and is the last one for its
\* key: whenever the value spec was evaluated twice for a key, the earlier
\* evaluation threw synchronously; and every evaluation of the cache that does
\* not throw returns the stored entry, which is what the one evaluation of the
\* value spec that did not throw returned.
C1_AtMostOnceOnceStored ==
  \A n \in CacheCalls :
    IsPrimitive(log[n].args[1]) =>
      /\ \A m1, m2 \in ValueEvals(n) : m1 < m2 => IsRaise(log[m1].out)
      /\ ~IsRaise(log[n].bout) =>
           /\ MemoHas(Machine, log[n].node, log[n].args[1])
           /\ log[n].bout = MemoGet(Machine, log[n].node, log[n].args[1])
           /\ Cardinality({m \in ValueEvals(n) : ~IsRaise(log[m].out)}) = 1
           /\ \A m \in ValueEvals(n) : ~IsRaise(log[m].out) => log[m].out = log[n].bout

\* A second evaluation got the stored promise while it was still pending.
C1_Witness ==
  \E n1, n2 \in CacheCalls :
    /\ n1 # n2 /\ SameEntry(n1, n2)
    /\ BodyKids(n1) # {} /\ BodyKids(n2) = {}
    /\ IsPromise(log[n2].bout) /\ WaitSt(log[n2].bout) = "pending"

(***************************************************************************)
(* C2.  How a child's failure is delivered.                                *)
(***************************************************************************)
\* C2 as claimed: a call of a spec whose mayDefer is true never throws, and a
\* spec whose mayDefer is false throws the very failure its child threw.
C2_FailureDeliveryByFlag ==
  \A n \in Entries :
    /\ log[n].spec.mayDefer => ~IsRaise(log[n].out)
    /\ ~log[n].spec.mayDefer =>
         \A m \in KidEntries(n) \cup BodyKids(n) :
           IsRaise(log[m].out) => log[n].out = log[m].out

(***************************************************************************)
(* C3.  A non-callable where a function is required.                       *)
(***************************************************************************)
\* The combinator call the program is about: the body of input's function.
Outer(e) ==
  IF e.t = "app" /\ e.op = "input" /\ e.args[1].t = "lamE" THEN e.args[1].body ELSE e

FnPosition(op) == IF op \in {"call", "input"} THEN 1 ELSE 2

PassesNonCallable(e) ==
  /\ Outer(e).t = "app"
  /\ Outer(e).op \in {"call", "map", "object", "bind", "cache", "input"}
  /\ Outer(e).args[FnPosition(Outer(e).op)].t = "lit"
  /\ ~IsFunction(Outer(e).args[FnPosition(Outer(e).op)].v)

\* C3 as claimed: once such a program has run, the construction has thrown
\* IllegalSpecError.
C3_IllegalSpecAtConstruction ==
  (PassesNonCallable(Programs[prog].e) /\ built # NoSpec)
    => built = Raise(IllegalSpecError)

(***************************************************************************)
(* C4.  Children are called in order, results delivered in order.          *)
(***************************************************************************)
Composed(n) == log[n].spec.mayDefer /\ Len(log[n].spec.kids) > 0

\* C4: whenever a deferring composed spec has returned its promise (the
\* awaiting has begun), its children have all been called, in declared order
\* and before that promise was made; and when its body has run, the i-th
\* argument was the awaited result of the i-th child.
C4_OrderedLaunchAndDelivery ==
  \A n \in Entries :
    (Composed(n) /\ IsPromise(log[n].out)) =>
      /\ Cardinality(KidEntries(n)) = Len(log[n].spec.kids)
      /\ \A i \in 1..Len(log[n].spec.kids) :
           /\ log[Nth(KidEntries(n), i)].node = log[n].spec.kids[i].id
           /\ IsPromise(log[Nth(KidEntries(n), i)].out) =>
                log[Nth(KidEntries(n), i)].out.id < log[n].out.id
           /\ log[n].ran => log[n].args[i] = WaitVal(log[Nth(KidEntries(n), i)].out)

\* The body ran with the different results of two deferred children.
C4_Witness ==
  \E n \in Entries :
    /\ Composed(n) /\ log[n].ran /\ Len(log[n].spec.kids) >= 2
    /\ IsPromise(log[Nth(KidEntries(n), 1)].out)
    /\ IsPromise(log[Nth(KidEntries(n), 2)].out)
    /\ log[n].args[1] # log[n].args[2]

(***************************************************************************)
(* C5.  mayDefer is fixed at construction and decides the result's shape.  *)
(***************************************************************************)
RECURSIVE FlagRule(_)
FlagRule(s) ==
  /\ s.mayDefer = (s.override \/ \E i \in 1..Len(s.kids) : s.kids[i].mayDefer)
  /\ \A i \in 1..Len(s.kids) : FlagRule(s.kids[i])
  /\ \A i \in 1..Len(s.cap) : FlagRule(s.cap[i])

\* C5: every spec of the tree carries (override or any child's flag); and every
\* call that returns, returns a promise the engine made for that call when the
\* flag is true, and its body's own result, no engine promise, when it is false.
C5_FlagDecidesShape ==
  /\ built.t = "compiled" => FlagRule(built.spec)
  /\ \A n \in Entries :
       ~IsRaise(log[n].out) =>
         IF log[n].spec.mayDefer
         THEN EnginePromise(log[n].out) /\ log[n].out.id > 0 /\ proms[log[n].out.id].inv = n
         ELSE ~EnginePromise(log[n].out) /\ log[n].ran /\ log[n].out = log[n].bout

\* A deferring object spec whose object was absent still gave a promise.
C5_Witness ==
  \E n \in Entries :
    /\ log[n].spec.kind = "object" /\ log[n].spec.mayDefer /\ log[n].ran
    /\ log[n].args[1].t = "undef"
    /\ proms[log[n].out.id].st = "fulfilled"
    /\ proms[log[n].out.id].val.t = "undef"

(***************************************************************************)
(* C6.  object: when the result spec is evaluated.                         *)
(***************************************************************************)
ObjectCalls == {n \in Entries : log[n].spec.kind = "object" /\ log[n].ran}

\* The result spec was called once, in the context extended by the object, and
\* its result returned.
ResultEvaluated(n) ==
  /\ Cardinality(BodyKids(n)) = 1
  /\ \A m \in BodyKids(n) :
       /\ log[m].node = log[n].spec.cap[1].id
       /\ ctxs[log[m].ctx] =
            Append(ctxs[log[n].ctx], [tok |-> log[n].spec.tok, val |-> log[n].args[1]])
       /\ log[n].bout = log[m].out

Skipped(n) == log[n].bout.t = "undef" /\ BodyKids(n) = {}

\* C6 as claimed: the result spec is skipped exactly when the object is the
\* absent marker; every other value is bound and the result spec evaluated.
C6_SkippedOnlyWhenAbsent ==
  \A n \in ObjectCalls :
    IF log[n].args[1].t = "undef" THEN Skipped(n) ELSE ResultEvaluated(n)

\* C6 amended: the result spec is skipped, and the result is absent, exactly when
\* the object is falsy (absent, null, false, 0, the empty string); every truthy
\* value is bound and the result spec evaluated.
C6_SkippedWhenFalsy ==
  \A n \in ObjectCalls :
    IF ~Truthy(log[n].args[1]) THEN Skipped(n) ELSE ResultEvaluated(n)

\* Both cases happened: 0 was skipped, and an object was bound.
C6_Witness ==
  /\ \E n \in ObjectCalls : log[n].args[1].t = "num" /\ Skipped(n)
  /\ \E n \in ObjectCalls : log[n].args[1].t = "obj" /\ ResultEvaluated(n)

(***************************************************************************)
(* C7.  ensureSpec of a literal.                                           *)
(***************************************************************************)
RECURSIVE IsLiteral(_)
IsLiteral(e) ==
  CASE e.t \in {"lit", "var"} -> TRUE
    [] e.t \in {"arrE"} -> \A i \in 1..Len(e.items) : IsLiteral(e.items[i])
    [] e.t \in {"objE"} -> \A i \in 1..Len(e.vals) : IsLiteral(e.vals[i])
    [] e.t = "app" -> e.op = "constant"
    [] OTHER -> FALSE

\* The literal itself, each nested spec replaced by what it evaluates to.
RECURSIVE StructCopy(_, _)
StructCopy(e, v) ==
  CASE e.t = "lit" -> e.v
    [] e.t = "var" -> v
    [] e.t = "arrE" -> Arr([i \in 1..Len(e.items) |-> StructCopy(e.items[i], v)])
    [] e.t = "objE" -> Obj(e.names, [i \in 1..Len(e.vals) |-> StructCopy(e.vals[i], v)])
    [] e.t = "app" -> StructCopy(e.args[1], v)

\* C7 as claimed: a program input(i => literal) returns a structural copy of the
\* literal.
C7_LiteralRoundTrip ==
  (Outer(Programs[prog].e) # Programs[prog].e /\ IsLiteral(Outer(Programs[prog].e))) =>
    \A n \in Entries :
      log[n].role = "root" =>
        log[n].out = StructCopy(Outer(Programs[prog].e), ctxs[log[n].ctx][1].val)

(***************************************************************************)
(* C8.  Contexts are extended by copy and scoped.                          *)
(***************************************************************************)
Scoping == {"bind", "map", "object", "cache"}

\* The tokens bound by the combinators whose body call m lies in.
RECURSIVE Scope(_)
Scope(m) ==
  IF log[m].parent = 0 THEN {built.tok}
  ELSE Scope(log[m].parent) \cup
       (IF log[m].role = "body" /\ log[log[m].parent].spec.kind \in Scoping
        THEN {log[log[m].parent].spec.tok} ELSE {})

\* The value the parent bound for its body call m.
BoundValue(m) ==
  IF log[log[m].parent].spec.kind = "map"
  THEN log[log[m].parent].args[1].items[
         Cardinality({x \in BodyKids(log[m].parent) : x <= m})]
  ELSE log[log[m].parent].args[1]

\* C8: the context every call received is its caller's own context, or for the
\* body call of bind, map, object and cache another context holding the caller's
\* bindings (as they still are) plus the one for the combinator's token; so a
\* context holds exactly the tokens of the combinators the call lies in.
C8_ContextsAreScoped ==
  \A m \in Entries :
    /\ {ctxs[log[m].ctx][i].tok : i \in 1..Len(ctxs[log[m].ctx])} = Scope(m)
    /\ Len(ctxs[log[m].ctx]) = Cardinality(Scope(m))
    /\ log[m].role = "kid" => log[m].ctx = log[log[m].parent].ctx
    /\ log[m].role = "body" =>
         IF log[log[m].parent].spec.kind \in Scoping
         THEN /\ log[m].ctx # log[log[m].parent].ctx
              /\ ctxs[log[m].ctx] =
                   Append(ctxs[log[log[m].parent].ctx],
                          [tok |-> log[log[m].parent].spec.tok, val |-> BoundValue(m)])
         ELSE log[m].ctx = log[log[m].parent].ctx

\* A reference evaluated after a sibling bind had bound its value sees only the
\* input's binding.
C8_Witness ==
  \E m, b \in Entries :
    /\ b < m /\ log[m].role = "kid" /\ log[m].spec.kind = "ref"
    /\ log[b].role = "body" /\ log[log[b].parent].spec.kind = "bind"
    /\ log[log[b].parent].parent = log[m].parent
    /\ Len(ctxs[log[b].ctx]) = 2 /\ Len(ctxs[log[m].ctx]) = 1

(***************************************************************************)
(* C9.  cases: the matched case, or absent.                                *)
(***************************************************************************)
CasesCalls == {n \in Entries : log[n].spec.kind = "cases" /\ log[n].ran}

\* C9 as claimed: a selector that is a key of the case map gives that case
\* spec's evaluation; any other selector gives absent and evaluates no case.
C9_MatchedCaseOrAbsent ==
  \A n \in CasesCalls :
    IF IndexOf(log[n].spec.names, ToKey(log[n].args[1])) > 0
    THEN /\ Cardinality(BodyKids(n)) = 1
         /\ \A m \in BodyKids(n) :
              /\ log[m].node =
                   log[n].spec.cap[IndexOf(log[n].spec.names, ToKey(log[n].args[1]))].id
              /\ log[n].bout = log[m].out
    ELSE log[n].bout.t = "undef" /\ BodyKids(n) = {}

(***************************************************************************)
(* C10.  conditional evaluates the selected branch only.                   *)
(***************************************************************************)
\* C10: an evaluation of conditional whose value has been produced has called
\* exactly one branch, trueSpec for a truthy value and falseSpec otherwise; one
\* whose body has not run has called none.
C10_ExactlyOneBranch ==
  \A n \in Entries :
    log[n].spec.kind = "conditional" =>
      IF log[n].ran
      THEN /\ Cardinality(BodyKids(n)) = 1
           /\ \A m \in BodyKids(n) :
                log[m].node = IF Truthy(log[n].args[1])
                              THEN log[n].spec.cap[1].id ELSE log[n].spec.cap[2].id
      ELSE BodyKids(n) = {}

\* A deferring conditional took its false branch, and (another time) its true one.
C10_Witness ==
  /\ \E n \in Entries :
       /\ log[n].spec.kind = "conditional" /\ log[n].spec.mayDefer /\ log[n].ran
       /\ ~Truthy(log[n].args[1])
       /\ \E m \in BodyKids(n) : log[m].node = log[n].spec.cap[2].id
  /\ \E n \in Entries :
       /\ log[n].spec.kind = "conditional" /\ log[n].spec.mayDefer /\ log[n].ran
       /\ Truthy(log[n].args[1])
       /\ \E m \in BodyKids(n) : log[m].node = log[n].spec.cap[1].id

=============================================================================
